---- MODULE Spec2Model ----
(***************************************************************************)
(* grepctl: ingestion, embedding repair, verification and search over the  *)
(* BigQuery table search_corpus.                                           *)
(*                                                                         *)
(* A table is an unordered collection of rows without a key constraint: it *)
(* is kept as the rows it holds for each uri, so a uri may have any number *)
(* of rows and a row is named by <<uri, k>>.  URIs are numbers whose order *)
(* is the order of ORDER BY uri.  SQL NULL is kept distinct from the empty *)
(* array, as index_verify and fix_stuck treat them.                        *)
(***************************************************************************)
EXTENDS Integers, Sequences, FiniteSets, TLC

\* ---------------------------------------------------------------- bounds
NJson == 1
MaxTopK == 2
NImages == 3

\* images per batch of update_all_images_vision.py: 10 in the source, kept
\* small enough here for a run to have several batches
batch_size == 2

\* sizes of the documents handed to an adapter on its own
MaxItems == 1700
MaxColumns == 101
MaxRows == 11

\* ------------------------------------------------------ program constants
D == 768
BatchLimit == 50
JsonBudget == 5000
CsvBudget == 3000
MarkerLen == 16
SliceMax == 100
max_workers == 5

PoolThreads_one_more == 1..(max_workers + 1)

\* the threads of ThreadPoolExecutor(max_workers=5)
PoolThreads == 1..max_workers

\* ------------------------------------------------------- source objects
JsonUris == 1..NJson
CsvUris == {NJson + 1}
TextUris == {NJson + 2}
MarkdownUris == {NJson + 3}
\* the seconds of the clock
Times == {1, 2}

ImageUris == (NJson + 4)..(NJson + 3 + NImages)
AllUris == JsonUris \cup CsvUris \cup TextUris \cup MarkdownUris \cup ImageUris
Runs == {1}

\* obj_json and obj_csv list every object of their directory, whatever its
\* name: the object of the csv directory is named with an extension that no
\* entry of MODALITIES lists (csv/notes.dat), the others with a listed one
HasListedExtension(u) == u \notin CsvUris

\* content of the blob behind a uri (the JSON and CSV objects hold the same data)
Blob(u) == IF u \in JsonUris \cup CsvUris THEN 1 ELSE 2

Min(a, b) == IF a < b THEN a ELSE b

\* ORDER BY uri: the k-th entry has k - 1 smaller ones before it
OrderByUri(S) ==
    [k \in 1..Cardinality(S) |->
        CHOOSE x \in S : Cardinality({y \in S : y < x}) = k - 1]

Take(s, n) == SubSeq(s, 1, Min(n, Len(s)))

SeqRange(s) == {s[i] : i \in DOMAIN s}

Replicate(x, n) == [k \in 1..n |-> x]

\* ------------------------------------------------------------- tables
EmptyTable == [u \in AllUris |-> <<>>]

RowIds(table) == UNION {{<<u, k>> : k \in DOMAIN table[u]} : u \in DOMAIN table}

RowAt(table, id) == table[id[1]][id[2]]

MapSeq(F(_), s) == [i \in DOMAIN s |-> F(s[i])]

\* INSERT of a list of rows
InsertRows(table, rows) ==
    [u \in DOMAIN table |-> table[u] \o SelectSeq(rows, LAMBDA r : r.uri = u)]

\* UPDATE ... SET ... WHERE
UpdateWhere(table, T(_), F(_)) ==
    [u \in DOMAIN table |->
        [k \in DOMAIN table[u] |-> IF T(table[u][k]) THEN F(table[u][k]) ELSE table[u][k]]]

SelectWhere(table, T(_)) == {id \in RowIds(table) : T(RowAt(table, id))}

Count(table, T(_)) == Cardinality(SelectWhere(table, T))

UrisWhere(table, T(_)) == {RowAt(table, id).uri : id \in SelectWhere(table, T)}

\* ------------------------------------------------------------- values
NullText == [isnull |-> TRUE, kind |-> "none", file |-> 0, body |-> 0, indexed |-> 0]
NullEmbedding == [isnull |-> TRUE, len |-> 0, v |-> <<0, 0>>]
EmptyEmbedding == [isnull |-> FALSE, len |-> 0, v |-> <<0, 0>>]

\* ARRAY_LENGTH(e) = n in a WHERE or CASE: NULL = n is not true
ArrayLengthIs(e, n) == ~e.isnull /\ e.len = n

SetNull(row) == [row EXCEPT !.embedding = NullEmbedding]

\* ------------------------------------------------------------ adapters
\* a canonical text: what it was made from (kind, file, body) and the time
\* of its "Indexed:" line (0 when the text has no such line)
process_json_file(uri, time) ==
    [isnull |-> FALSE, kind |-> "json", file |-> uri, body |-> Blob(uri), indexed |-> time]

process_csv_file(uri, time) ==
    [isnull |-> FALSE, kind |-> "csv", file |-> uri, body |-> Blob(uri), indexed |-> time]

Doc(uri, modality, content) ==
    [uri |-> uri, modality |-> modality, text_content |-> content]

RowToInsert_empty_array(doc) ==
    [uri |-> doc.uri, modality |-> doc.modality, source |-> "NULL",
     text_content |-> doc.text_content, embedding |-> EmptyEmbedding]

RowToInsert(doc) ==
    [uri |-> doc.uri, modality |-> doc.modality, source |-> "NULL",
     text_content |-> doc.text_content, embedding |-> NullEmbedding]

rows_to_insert(documents) == MapSeq(RowToInsert, documents)

\* ------------------------------------------------------------- state
\* documents, corpus: the tables; run: the ingestion runs; fix: the repair
\* command in progress; hist: what the command just before did; vision:
\* the image analysis script in progress; now: the clock, in seconds;
\* adapter: one call of process_json_file or process_csv_file on its own
VARIABLES documents, corpus, run, fix, hist, vision, now, adapter, listing, unreadable

vars == <<documents, corpus, run, fix, hist, vision, now, adapter, listing, unreadable>>

IdleRun == [pc |-> "idle", existing |-> {}, todo |-> {},
            submitted |-> {}, failed |-> {},
            json_documents |-> <<>>, csv_documents |-> <<>>,
            queue |-> <<>>, workers |-> [w \in PoolThreads |-> 0]]

IdleFix == [pc |-> "idle", modality |-> "all", reset |-> 0, ran |-> FALSE,
            todo |-> {}, found |-> <<0, 0, 0>>, repaired |-> 0, failed |-> 0,
            clean |-> FALSE, wasEmpty |-> {}, follows |-> FALSE]

NoSearch == [valid |-> FALSE, query |-> 0, top_k |-> 0, filter |-> {},
             ok |-> FALSE, results |-> <<>>, repeat |-> FALSE]

NoHist == [afterRepair |-> FALSE, last |-> NoSearch]

\* remaining_uris, success_count: complete_vision_analysis.py main;
\* batches .. failed_count: update_all_images_vision.py main (todo: the
\* futures of the batch in progress, by position in the batch);
\* before: the corpus when the run started; failed: the uris whose analysis
\* failed in the run in progress or just finished; again: the uris that
\* failed in the run just before this one
IdleVision == [pc |-> "idle", remaining_uris |-> <<>>, success_count |-> 0,
               batches |-> <<>>, i |-> 0, todo |-> {}, batch_results |-> <<>>,
               pending |-> <<>>, all_results |-> 0,
               successful_count |-> 0, failed_count |-> 0,
               before |-> <<>>, failed |-> {}, again |-> {}]

NoListing == [pc |-> "idle", blob |-> [prefix |-> "none", name |-> <<>>],
              json_files |-> {}, csv_files |-> {}]

NoCall == [pc |-> "idle", kind |-> "none", data |-> <<>>, content_parts |-> <<>>]

AllIdle == fix.pc = "idle" /\ \A r \in Runs : run[r].pc = "idle"

Init ==
    /\ documents = EmptyTable
    /\ corpus = EmptyTable
    /\ run = [r \in Runs |-> IdleRun]
    /\ fix = IdleFix
    /\ hist = NoHist
    /\ vision = IdleVision
    /\ now = 1
    /\ listing = NoListing
    /\ unreadable = {}
    /\ adapter = NoCall

\* ------------------------------------------- ingest_json_csv.py: main
IsJsonOrCsv(row) == row.modality \in {"json", "csv"}

existing_uris_json_only(table) ==
    UrisWhere(table, LAMBDA row : row.modality \in {"json"})

existing_uris(table) == UrisWhere(table, IsJsonOrCsv)

new_uris(source, existing) == OrderByUri(source \ existing)

\* the uris reported with a "Failed" or "Error processing" line
Logged(failed, u, ok) == IF ok THEN failed ELSE failed \cup {u}

IngestStart(r) ==
    /\ AllIdle
    /\ LET ex == existing_uris(corpus)
           futures == SeqRange(Take(new_uris(JsonUris, ex), BatchLimit))
       IN run' = [run EXCEPT ![r] =
                    [IdleRun EXCEPT !.pc = "json", !.existing = ex,
                       !.todo = futures, !.submitted = futures]]
    /\ hist' = NoHist
    /\ UNCHANGED <<unreadable, listing, adapter, vision, now, documents, corpus, fix>>

ExtractJson(r) ==
    /\ run[r].pc = "json"
    /\ \E u \in run[r].todo, ok \in BOOLEAN :
         run' = [run EXCEPT ![r].todo = @ \ {u},
                            ![r].json_documents =
                               IF ok THEN Append(@, Doc(u, "json", process_json_file(u, now)))
                               ELSE @,
                            ![r].failed = Logged(@, u, ok)]
    /\ UNCHANGED <<unreadable, listing, adapter, vision, now, documents, corpus, fix, hist>>

JsonPoolDone(r) ==
    /\ run[r].pc = "json"
    /\ run[r].todo = {}
    /\ LET futures == SeqRange(Take(new_uris(CsvUris, run[r].existing), BatchLimit))
       IN run' = [run EXCEPT ![r].pc = "csv", ![r].todo = futures,
                             ![r].submitted = @ \cup futures]
    /\ UNCHANGED <<unreadable, listing, adapter, vision, now, documents, corpus, fix, hist>>

ExtractCsv(r) ==
    /\ run[r].pc = "csv"
    /\ \E u \in run[r].todo, ok \in BOOLEAN :
         run' = [run EXCEPT ![r].todo = @ \ {u},
                            ![r].csv_documents =
                               IF ok THEN Append(@, Doc(u, "csv", process_csv_file(u, now)))
                               ELSE @,
                            ![r].failed = Logged(@, u, ok)]
    /\ UNCHANGED <<unreadable, listing, adapter, vision, now, documents, corpus, fix, hist>>

DocUris(docs) == {docs[i].uri : i \in DOMAIN docs}

\* one insert_rows_json call for all rows; errors: the rows the store
\* rejected.  With any row rejected the request stores no row at all.
insert_to_bigquery(table, docs, errors) ==
    IF docs = <<>> \/ errors # {} THEN table ELSE InsertRows(table, rows_to_insert(docs))

InsertAll(r) ==
    /\ run[r].pc = "csv"
    /\ run[r].todo = {}
    /\ LET all_documents == run[r].json_documents \o run[r].csv_documents
       IN \E errors \in SUBSET DocUris(all_documents) :
             corpus' = insert_to_bigquery(corpus, all_documents, errors)
    /\ run' = [run EXCEPT ![r] = IdleRun]
    /\ UNCHANGED <<unreadable, listing, adapter, vision, now, documents, fix, hist>>

\* ----------------------- ingest_json_csv.py: main, the pool thread by thread
\* a source with one JSON object more than the pool has threads
PoolJsonUris == 1..(max_workers + 1)
PoolCsvUris == {max_workers + 2}

IdleWorkers(r) == {w \in DOMAIN run[r].workers : run[r].workers[w] = 0}

BusyWorkers(r) == DOMAIN run[r].workers \ IdleWorkers(r)

\* the existing query, the json query and the submit of every json uri
PoolStart(r) ==
    /\ AllIdle
    /\ LET ex == existing_uris(corpus)
           json_uris == Take(new_uris(PoolJsonUris, ex), BatchLimit)
       IN run' = [run EXCEPT ![r] =
                    [IdleRun EXCEPT !.pc = "json", !.existing = ex, !.queue = json_uris,
                       !.todo = SeqRange(json_uris), !.submitted = SeqRange(json_uris)]]
    /\ hist' = NoHist
    /\ UNCHANGED <<unreadable, listing, adapter, vision, now, documents, corpus, fix>>

\* ThreadPoolExecutor: a thread without work takes the oldest item waiting
WorkerTakes(r) ==
    /\ run[r].pc \in {"json", "csv"}
    /\ run[r].queue # <<>>
    /\ \E w \in IdleWorkers(r) :
         run' = [run EXCEPT ![r].workers[w] = Head(run[r].queue), ![r].queue = Tail(@)]
    /\ UNCHANGED <<unreadable, listing, adapter, vision, now, documents, corpus, fix, hist>>

\* a thread returns from process_json_file or process_csv_file and the
\* as_completed loop takes the result
WorkerDone(r) ==
    /\ \E w \in BusyWorkers(r), ok \in BOOLEAN :
         LET u == run[r].workers[w]
         IN run' = [run EXCEPT ![r].workers[w] = 0, ![r].todo = @ \ {u},
                      ![r].json_documents =
                         IF ok /\ run[r].pc = "json"
                         THEN Append(@, Doc(u, "json", process_json_file(u, now))) ELSE @,
                      ![r].csv_documents =
                         IF ok /\ run[r].pc = "csv"
                         THEN Append(@, Doc(u, "csv", process_csv_file(u, now))) ELSE @,
                      ![r].failed = Logged(@, u, ok)]
    /\ UNCHANGED <<unreadable, listing, adapter, vision, now, documents, corpus, fix, hist>>

\* the with block of the json pool is left; the csv query and its submits
PoolJsonDone(r) ==
    /\ run[r].pc = "json"
    /\ run[r].todo = {}
    /\ LET csv_uris == Take(new_uris(PoolCsvUris, run[r].existing), BatchLimit)
       IN run' = [run EXCEPT ![r].pc = "csv", ![r].queue = csv_uris,
                             ![r].todo = SeqRange(csv_uris),
                             ![r].submitted = @ \cup SeqRange(csv_uris)]
    /\ UNCHANGED <<unreadable, listing, adapter, vision, now, documents, corpus, fix, hist>>

InitPool ==
    /\ documents = EmptyTable
    /\ corpus = [u \in PoolJsonUris \cup PoolCsvUris |-> <<>>]
    /\ run = [r \in Runs |-> IdleRun]
    /\ fix = IdleFix
    /\ hist = NoHist
    /\ vision = IdleVision
    /\ now = 1
    /\ listing = NoListing
    /\ unreadable = {}
    /\ adapter = NoCall

NextPool ==
    \E r \in Runs :
       \/ PoolStart(r)
       \/ WorkerTakes(r)
       \/ WorkerDone(r)
       \/ PoolJsonDone(r)
       \/ InsertAll(r)

SpecPool == InitPool /\ [][NextPool]_vars

\* ------------------- ingest_json_csv.py: two runs of main at the same time
OverlappingRuns == {1, 2}

\* main of one process starts whatever the other process is doing
StartOverlapping(r) ==
    /\ run[r].pc = "idle"
    /\ LET ex == existing_uris(corpus)
           futures == SeqRange(Take(new_uris(JsonUris, ex), BatchLimit))
       IN run' = [run EXCEPT ![r] =
                    [IdleRun EXCEPT !.pc = "json", !.existing = ex,
                       !.todo = futures, !.submitted = futures]]
    /\ UNCHANGED <<unreadable, listing, adapter, vision, now, documents, corpus, fix, hist>>

InitOverlap ==
    /\ documents = EmptyTable
    /\ corpus = EmptyTable
    /\ run = [r \in OverlappingRuns |-> IdleRun]
    /\ fix = IdleFix
    /\ hist = NoHist
    /\ vision = IdleVision
    /\ now = 1
    /\ listing = NoListing
    /\ unreadable = {}
    /\ adapter = NoCall

NextOverlap ==
    \E r \in OverlappingRuns :
       \/ StartOverlapping(r)
       \/ ExtractJson(r)
       \/ JsonPoolDone(r)
       \/ ExtractCsv(r)
       \/ InsertAll(r)

SpecOverlap == InitOverlap /\ [][NextOverlap]_vars

\* ------------------------ ingest_json_csv.py: main run after run, pool by pool
\* a source with one JSON object more than a run takes; unreadable: the
\* objects whose extraction fails whenever it is tried
ManyJsonUris == 1..(BatchLimit + 1)
ManyCsvUris == {BatchLimit + 2}

\* the documents of the futures of one pool, those of unreadable objects left out
PoolDocuments(futures, modality) ==
    LET good == SelectSeq(futures, LAMBDA u : u \notin unreadable)
    IN [k \in DOMAIN good |->
          Doc(good[k], modality,
              IF modality = "json" THEN process_json_file(good[k], now)
              ELSE process_csv_file(good[k], now))]

\* the existing query and the json query; every json uri is submitted
RunStart(r) ==
    /\ run[r].pc = "idle"
    /\ run' = [run EXCEPT ![r] =
                 [IdleRun EXCEPT !.pc = "json", !.existing = existing_uris(corpus),
                    !.queue = Take(new_uris(ManyJsonUris, existing_uris(corpus)), BatchLimit)]]
    /\ UNCHANGED <<unreadable, listing, adapter, vision, now, documents, corpus, fix, hist>>

\* the json pool from its first future to its last; the csv query and its submits
RunJsonPool(r) ==
    /\ run[r].pc = "json"
    /\ run' = [run EXCEPT ![r].pc = "csv",
                  ![r].submitted = SeqRange(run[r].queue),
                  ![r].failed = SeqRange(run[r].queue) \cap unreadable,
                  ![r].json_documents = PoolDocuments(run[r].queue, "json"),
                  ![r].queue = Take(new_uris(ManyCsvUris, run[r].existing), BatchLimit)]
    /\ UNCHANGED <<unreadable, listing, adapter, vision, now, documents, corpus, fix, hist>>

\* the csv pool
RunCsvPool(r) ==
    /\ run[r].pc = "csv"
    /\ run' = [run EXCEPT ![r].pc = "insert",
                  ![r].submitted = @ \cup SeqRange(run[r].queue),
                  ![r].failed = @ \cup (SeqRange(run[r].queue) \cap unreadable),
                  ![r].csv_documents = PoolDocuments(run[r].queue, "csv"),
                  ![r].queue = <<>>]
    /\ UNCHANGED <<unreadable, listing, adapter, vision, now, documents, corpus, fix, hist>>

\* the insert, the store accepting every row
RunInsert(r) ==
    /\ run[r].pc = "insert"
    /\ corpus' = insert_to_bigquery(corpus, run[r].json_documents \o run[r].csv_documents, {})
    /\ run' = [run EXCEPT ![r] = IdleRun]
    /\ UNCHANGED <<unreadable, listing, adapter, vision, now, documents, fix, hist>>

InitMany ==
    /\ documents = EmptyTable
    /\ corpus = [u \in ManyJsonUris \cup ManyCsvUris |-> <<>>]
    /\ run = [r \in Runs |-> IdleRun]
    /\ fix = IdleFix
    /\ hist = NoHist
    /\ vision = IdleVision
    /\ now = 1
    /\ listing = NoListing
    /\ adapter = NoCall
    /\ \E n \in 0..(BatchLimit + 1), csv \in SUBSET ManyCsvUris : unreadable = 1..n \cup csv

NextMany ==
    \E r \in Runs :
       \/ RunStart(r)
       \/ RunJsonPool(r)
       \/ RunCsvPool(r)
       \/ RunInsert(r)

SpecMany == InitMany /\ [][NextMany]_vars

\* run follows run without end
SpecManyFair == SpecMany /\ WF_vars(NextMany)

\* ------------------------------------------------- setup_mmgrep.py
SimpleRow(u, source, text) ==
    [uri |-> u, modality |-> "text", source |-> source,
     text_content |-> text, embedding |-> NullEmbedding]

RawText(u) == [isnull |-> FALSE, kind |-> "raw", file |-> u, body |-> Blob(u), indexed |-> 0]

\* SAFE_CAST(data AS STRING) is NULL when the bytes are not valid text
SafeCast(u, castOk) == IF castOk THEN RawText(u) ELSE NullText

IsTextModality(row) == row.modality = "text"

IsMarkdownSource(row) == row.source = "markdown"

InsertSelect(table, new, source, castOk) ==
    InsertRows(table, MapSeq(LAMBDA u : SimpleRow(u, source, SafeCast(u, castOk[u])),
                             OrderByUri(new)))

ingest_simple_data ==
    /\ AllIdle
    /\ \E castOk \in [TextUris \cup MarkdownUris -> BOOLEAN] :
         LET text_new == TextUris \ UrisWhere(documents, IsTextModality)
             after_text == InsertSelect(documents, text_new, "file", castOk)
             markdown_new == MarkdownUris \ UrisWhere(after_text, IsMarkdownSource)
         IN documents' = InsertSelect(after_text, markdown_new, "markdown", castOk)
    /\ hist' = NoHist
    /\ UNCHANGED <<unreadable, listing, adapter, vision, now, corpus, run, fix>>

HasText(row) == ~row.text_content.isnull

CorpusRow(row) == [row EXCEPT !.embedding = NullEmbedding]

create_search_corpus ==
    /\ AllIdle
    /\ corpus' = [u \in DOMAIN documents |->
                    MapSeq(CorpusRow, SelectSeq(documents[u], HasText))]
    /\ hist' = NoHist
    /\ UNCHANGED <<unreadable, listing, adapter, vision, now, documents, run, fix>>

\* ------------------------------------------------ embedding capability
VecOf(body) == IF body = 1 THEN <<2, 1>> ELSE IF body = 2 THEN <<1, 1>> ELSE <<1, 0>>

Embed(text) == [isnull |-> FALSE, len |-> D, v |-> VecOf(text.body)]

\* lengths a persisted vector can regress to
AnomalousLens == {0, D - 1}

Regress ==
    /\ AllIdle
    /\ \E id \in RowIds(corpus), n \in AnomalousLens :
         /\ ArrayLengthIs(RowAt(corpus, id).embedding, D)
         /\ corpus' = [corpus EXCEPT ![id[1]][id[2]].embedding =
                          IF n = 0 THEN EmptyEmbedding ELSE [@ EXCEPT !.len = n]]
    /\ hist' = NoHist
    /\ UNCHANGED <<unreadable, listing, adapter, vision, now, documents, run, fix>>

\* ------------------------------------------ anomaly classes of a record
IsNullAnomaly(row) == row.embedding.isnull /\ ~row.text_content.isnull

IsEmptyAnomaly(row) == ArrayLengthIs(row.embedding, 0)

IsWrongDim(row) ==
    ~row.embedding.isnull /\ row.embedding.len # 0 /\ row.embedding.len # D

IsAnomaly(row) == IsNullAnomaly(row) \/ IsEmptyAnomaly(row) \/ IsWrongDim(row)

\* ------------------------------------------------- grepctl.py: fix
Modalities == {"json", "csv", "text"}

InScope(row, modality) == modality = "all" \/ row.modality = modality

IsStuck_valid_length(row, modality) ==
    ArrayLengthIs(row.embedding, D) /\ InScope(row, modality)

IsStuck(row, modality) == ArrayLengthIs(row.embedding, 0) /\ InScope(row, modality)

ClearEmpty_no_update(table, modality) == table

ClearEmpty(table, modality) ==
    UpdateWhere(table, LAMBDA row : IsStuck(row, modality), SetNull)

num_dml_affected_rows(table, modality) ==
    Count(table, LAMBDA row : IsStuck(row, modality))

fix_stuck ==
    /\ AllIdle
    /\ \E modality \in Modalities \cup {"all"} :
         /\ corpus' = ClearEmpty(corpus, modality)
         /\ fix' = [IdleFix EXCEPT !.pc = "script", !.modality = modality,
                       !.reset = num_dml_affected_rows(corpus, modality),
                       !.clean = Count(corpus, IsAnomaly) = 0,
                       !.wasEmpty = SelectWhere(corpus, IsEmptyAnomaly),
                       !.follows = hist.afterRepair]
    /\ hist' = NoHist
    /\ UNCHANGED <<unreadable, listing, adapter, vision, now, documents, run>>

fix_embeddings ==
    /\ AllIdle
    /\ fix' = [IdleFix EXCEPT !.pc = "script",
                  !.clean = Count(corpus, IsAnomaly) = 0,
                  !.wasEmpty = SelectWhere(corpus, IsEmptyAnomaly),
                  !.follows = hist.afterRepair]
    /\ hist' = NoHist
    /\ UNCHANGED <<unreadable, listing, adapter, vision, now, documents, corpus, run>>

\* run_python_script: the script file is not there, nothing is run
ScriptMissing ==
    /\ fix.pc = "script"
    /\ fix' = [fix EXCEPT !.pc = "done", !.ran = FALSE]
    /\ UNCHANGED <<unreadable, listing, adapter, vision, now, documents, corpus, run, hist>>

\* ------------------------------------------ fix_embeddings.py (repair)
NeedsClear_empty_only(row) == IsEmptyAnomaly(row)

NeedsClear(row) == IsEmptyAnomaly(row) \/ IsWrongDim(row)

ClearAnomalous(table) == UpdateWhere(table, NeedsClear, SetNull)

ScriptScan ==
    /\ fix.pc = "script"
    /\ corpus' = ClearAnomalous(corpus)
    /\ fix' = [fix EXCEPT !.pc = "embed", !.ran = TRUE,
                  !.found = <<Count(corpus, IsNullAnomaly),
                              Count(corpus, IsEmptyAnomaly),
                              Count(corpus, IsWrongDim)>>,
                  !.todo = SelectWhere(corpus', IsNullAnomaly)]
    /\ UNCHANGED <<unreadable, listing, adapter, vision, now, documents, run, hist>>

ScriptEmbed ==
    /\ fix.pc = "embed"
    /\ \E id \in fix.todo, ok \in BOOLEAN :
         IF ok
         THEN /\ corpus' = [corpus EXCEPT ![id[1]][id[2]].embedding =
                               Embed(RowAt(corpus, id).text_content)]
              /\ fix' = [fix EXCEPT !.todo = @ \ {id}, !.repaired = @ + 1]
         ELSE /\ corpus' = corpus
              /\ fix' = [fix EXCEPT !.todo = @ \ {id}, !.failed = @ + 1]
    /\ UNCHANGED <<unreadable, listing, adapter, vision, now, documents, run, hist>>

ScriptFinish ==
    /\ fix.pc = "embed"
    /\ fix.todo = {}
    /\ fix' = [fix EXCEPT !.pc = "done"]
    /\ UNCHANGED <<unreadable, listing, adapter, vision, now, documents, corpus, run, hist>>

FixReturn ==
    /\ fix.pc = "done"
    /\ hist' = [NoHist EXCEPT !.afterRepair = fix.ran /\ fix.failed = 0]
    /\ fix' = IdleFix
    /\ UNCHANGED <<unreadable, listing, adapter, vision, now, documents, corpus, run>>

\* ----------------------------------------- grepctl.py: index_verify
ValidCase_any_array(row) == IF ~row.embedding.isnull THEN 1 ELSE 0

ValidCase(row) == IF ArrayLengthIs(row.embedding, 768) THEN 1 ELSE 0

NullCase(row) == IF row.embedding.isnull THEN 1 ELSE 0

EmptyCase_null_as_empty(row) ==
    IF row.embedding.isnull \/ row.embedding.len = 0 THEN 1 ELSE 0

EmptyCase(row) == IF ArrayLengthIs(row.embedding, 0) THEN 1 ELSE 0

\* SUM(CASE WHEN ... THEN 1 ELSE 0 END) over the rows S
SumOver(table, S, F(_)) == Cardinality({id \in S : F(RowAt(table, id)) = 1})

Group(table, m) == {id \in RowIds(table) : RowAt(table, id).modality = m}

index_verify(table) ==
    [m \in {RowAt(table, id).modality : id \in RowIds(table)} |->
        [total_docs |-> Cardinality(Group(table, m)),
         valid_embeddings |-> SumOver(table, Group(table, m), ValidCase),
         null_embeddings |-> SumOver(table, Group(table, m), NullCase),
         empty_embeddings |-> SumOver(table, Group(table, m), EmptyCase)]]

\* ------------------------------------------------ search engine
QueryBodies == {2, 3}

QueryText(q) == [isnull |-> FALSE, kind |-> "query", file |-> 0, body |-> q, indexed |-> 0]

Filters == {{}, {"json", "csv"}}

Dot(a, b) == a[1] * b[1] + a[2] * b[2]

SignedSquare(x) == IF x >= 0 THEN x * x ELSE 0 - (x * x)

\* cosine similarity dot(q, v) / (|q| |v|), kept exact as the pair
\* <<sign(dot) dot^2, |q|^2 |v|^2>>: x |-> sign(x) x^2 is monotone
Score(q, v) == <<SignedSquare(Dot(q, v)), Dot(q, q) * Dot(v, v)>>

ScoreLess(a, b) == a[1] * b[2] < b[1] * a[2]

ScoreEq(a, b) == a[1] * b[2] = b[1] * a[2]

IsCandidate_any_row(row, filter) ==
    filter = {} \/ row.modality \in filter

IsCandidate(row, filter) ==
    /\ ArrayLengthIs(row.embedding, D)
    /\ filter = {} \/ row.modality \in filter

Candidates(table, filter) ==
    {id \in RowIds(table) : IsCandidate(RowAt(table, id), filter)}

RowScore(table, qv, id) == Score(qv, RowAt(table, id).embedding.v)

RanksBefore_score_only(table, qv, i, j) ==
    ScoreLess(RowScore(table, qv, j), RowScore(table, qv, i))

\* row i is ranked before row j: higher score, ties broken by uri ascending
RanksBefore(table, qv, i, j) ==
    \/ ScoreLess(RowScore(table, qv, j), RowScore(table, qv, i))
    \/ /\ ScoreEq(RowScore(table, qv, i), RowScore(table, qv, j))
       /\ RowAt(table, i).uri < RowAt(table, j).uri

\* every ordering of the rows C that the ranking rule allows
RECURSIVE Rankings(_, _, _)
Rankings(table, qv, C) ==
    IF C = {} THEN {<<>>}
    ELSE UNION {{<<m>> \o rest : rest \in Rankings(table, qv, C \ {m})} :
                m \in {x \in C : \A y \in C : ~RanksBefore(table, qv, y, x)}}

Hit(table, qv, id) ==
    [uri |-> RowAt(table, id).uri, score |-> RowScore(table, qv, id),
     excerpt |-> RowAt(table, id).text_content]

SearchEngine(table, q, top_k, filter) ==
    LET qv == Embed(QueryText(q)).v
    IN {[n \in 1..Min(top_k, Len(r)) |-> Hit(table, qv, r[n])] :
          r \in Rankings(table, qv, Candidates(table, filter))}

\* the query text could not be embedded: no result list
SearchFailed == [NoSearch EXCEPT !.valid = TRUE]

\* what the engine process may have written to stdout before it failed:
\* nothing, or a list built without the query vector
FailedStdout(table) ==
    {<<>>} \cup {<<Hit(table, <<0, 0>>, id)>> : id \in RowIds(table)}

CompletedProcess(returncode, stdout) == [returncode |-> returncode, stdout |-> stdout]

FailureOutput_prints_stdout(result) == [SearchFailed EXCEPT !.results = result.stdout]

\* returncode # 0: "Search failed: {stderr}" is all that is printed
FailureOutput(result) == SearchFailed

\* grepctl.py search: run the engine, print its output or "Search failed"
search ==
    /\ AllIdle
    /\ \/ \E q \in QueryBodies, top_k \in 1..MaxTopK, filter \in Filters :
            \E out \in SearchEngine(corpus, q, top_k, filter) :
               hist' = [hist EXCEPT !.last =
                          [valid |-> TRUE, query |-> q, top_k |-> top_k, filter |-> filter,
                           ok |-> TRUE, results |-> out,
                           repeat |-> /\ hist.last.ok
                                      /\ hist.last.query = q
                                      /\ hist.last.top_k = top_k
                                      /\ hist.last.filter = filter]]
       \/ \E stdout \in FailedStdout(corpus) :
            hist' = [hist EXCEPT !.last = FailureOutput(CompletedProcess(1, stdout))]
    /\ UNCHANGED <<unreadable, listing, adapter, vision, now, documents, corpus, run, fix>>

\* ------------------------------------------- the text of an adapter
\* A document is given by its sizes.  JSON: shape "dict" (n keys of kl
\* characters, integer values of w digits) or "list" (n integers of w
\* digits).  CSV: c columns with names of hl characters, r rows of values of
\* w characters.  A text is the list content_parts, cut into pieces: name,
\* len (characters), sep (the newline that '\n'.join puts before it).
NameLens == {1, 5, 200}
Widths == {1, 60, 101}

JsonDocs == [shape : {"dict", "list"}, n : 0..MaxItems, kl : NameLens, w : Widths]
CsvDocs == [c : 1..MaxColumns, hl : NameLens, r : 0..MaxRows, w : Widths]

\* len("gs://b/p/json/a.json"), len("a.json")
UriLen == 20
FileLen == 6

Digits(n) == IF n < 10 THEN 1 ELSE IF n < 100 THEN 2 ELSE IF n < 1000 THEN 3 ELSE 4

\* len(sep.join(names)) for count names of len characters
JoinLen(count, len, sep) == IF count = 0 THEN 0 ELSE count * len + (count - 1) * sep

Piece(name, len) == [name |-> name, len |-> len, of |-> len, sep |-> 1]

Pieces(name, count, len) == [i \in 1..count |-> Piece(name, len)]

\* a raw payload of `of` characters sliced to its budget
Sliced(of, budget) == [name |-> "payload", len |-> Min(of, budget), of |-> of, sep |-> 0]

\* "\n... [truncated]"
Marker == [name |-> "truncated", len |-> MarkerLen, of |-> MarkerLen, sep |-> 0]

\* "", "Analysis: ... extracted for semantic search", "Indexed: <time>"
Trailer(analysis) == <<Piece("blank", 0), Piece("analysis", analysis), Piece("indexed", 32)>>

RECURSIVE TextLength(_)
TextLength(parts) ==
    IF parts = <<>> THEN 0
    ELSE Head(parts).len + TextLength(Tail(parts))
         + (IF Tail(parts) = <<>> THEN 0 ELSE Tail(parts)[1].sep)

\* ------------------------------- ingest_json_csv.py: process_json_file
DumpItem(d) == IF d.shape = "dict" THEN d.kl + 4 + d.w ELSE d.w

\* len(json.dumps(data, indent=2)): "[", "\n  item" per item, ",", "\n]"
DumpIndent(d) == IF d.n = 0 THEN 2 ELSE 1 + d.n * (3 + DumpItem(d)) + (d.n - 1) + 2

\* len(json.dumps(data)): "[", items joined by ", ", "]"
DumpCompact(d) == IF d.n = 0 THEN 2 ELSE 2 + JoinLen(d.n, DumpItem(d), 2)

get_json_structure(d) ==
    IF d.n = 0 THEN 2
    ELSE IF d.shape = "dict"
    THEN 2 + (IF d.n > 5 THEN JoinLen(5, d.kl, 2) + 2 + 3 ELSE JoinLen(d.n, d.kl, 2))
    ELSE 17 + Digits(d.n)

JsonHead(d) ==
    <<[Piece("file", 11 + FileLen) EXCEPT !.sep = 0], Piece("location", 10 + UriLen),
      Piece("structure", 11 + get_json_structure(d)), Piece("blank", 0)>>

JsonKeyInformation(d) ==
    IF d.shape = "dict"
    THEN <<Piece("root_keys", 11 + JoinLen(Min(d.n, 10), d.kl, 2)), Piece("heading", 16)>>
         \o Pieces("sample", Min(d.n, 20), 2 + d.kl + 2 + Min(d.w, 100))
    ELSE <<Piece("array", 17 + Digits(d.n))>>
         \o (IF d.n > 0
             THEN <<Piece("item_type", 14), Piece("heading", 14)>>
                  \o Pieces("sample", Min(d.n, 5), 7 + Min(d.w, 100))
             ELSE <<>>)

\* json_str = json.dumps(data, indent=2)[:5000]; the suffix is added when
\* len(json_str) < len(json.dumps(data))
JsonData(d) ==
    LET json_str == Sliced(DumpIndent(d), JsonBudget)
    IN <<Piece("heading", 12), json_str>>
       \o (IF json_str.len < DumpCompact(d) THEN <<Marker>> ELSE <<>>)

JsonContentParts(d) == JsonHead(d) \o JsonKeyInformation(d) \o JsonData(d) \o Trailer(52)

\* -------------------------------- ingest_json_csv.py: process_csv_file
\* len(csv_content): the header line and r lines of c values
CsvLength(d) == (JoinLen(d.c, d.hl, 1) + 1) + d.r * (JoinLen(d.c, d.w, 1) + 1)

CsvHead(d) ==
    <<[Piece("file", 10 + FileLen) EXCEPT !.sep = 0], Piece("location", 10 + UriLen),
      Piece("blank", 0),
      Piece("columns", 12 + Digits(d.c) + JoinLen(d.c, d.hl, 2)),
      Piece("rows", 6 + Digits(d.r))>>

CsvAnalysis(d) ==
    IF d.r = 0 THEN <<>>
    ELSE <<Piece("heading", 17)>>
         \o Pieces("column", Min(d.c, 10), 2 + d.hl + 2 + JoinLen(Min(d.r, 3), Min(d.w, 50), 2))
         \o <<Piece("heading", 29)>>
         \o [i \in 1..Min(d.r, 10) |->
               Piece("row", 8 + Digits(i) + JoinLen(Min(d.c, 5), d.hl + 2 + Min(d.w, 30), 3))]
         \o <<Piece("numeric", 24 + JoinLen(Min(d.c, 10), d.hl, 2))>>

\* csv_preview = csv_content[:3000]; the suffix is added when
\* len(csv_preview) < len(csv_content)
CsvPreview(d) ==
    LET csv_preview == Sliced(CsvLength(d), CsvBudget)
    IN <<Piece("heading", 14), csv_preview>>
       \o (IF csv_preview.len < CsvLength(d) THEN <<Marker>> ELSE <<>>)

CsvContentParts(d) == CsvHead(d) \o CsvAnalysis(d) \o CsvPreview(d) \o Trailer(51)

InitAdapter ==
    /\ documents = EmptyTable
    /\ corpus = EmptyTable
    /\ run = [r \in Runs |-> IdleRun]
    /\ fix = IdleFix
    /\ hist = NoHist
    /\ vision = IdleVision
    /\ now = 1
    /\ listing = NoListing
    /\ unreadable = {}
    /\ adapter \in {[NoCall EXCEPT !.pc = "call", !.kind = "json", !.data = d] : d \in JsonDocs}
                   \cup {[NoCall EXCEPT !.pc = "call", !.kind = "csv", !.data = d] : d \in CsvDocs}

ProcessJson ==
    /\ adapter.pc = "call"
    /\ adapter.kind = "json"
    /\ adapter' = [adapter EXCEPT !.pc = "done", !.content_parts = JsonContentParts(adapter.data)]
    /\ UNCHANGED <<unreadable, listing, documents, corpus, run, fix, hist, vision, now>>

ProcessCsv ==
    /\ adapter.pc = "call"
    /\ adapter.kind = "csv"
    /\ adapter' = [adapter EXCEPT !.pc = "done", !.content_parts = CsvContentParts(adapter.data)]
    /\ UNCHANGED <<unreadable, listing, documents, corpus, run, fix, hist, vision, now>>

\* json.loads, the download or the csv reader raised: None is returned
ProcessFails ==
    /\ adapter.pc = "call"
    /\ adapter' = [adapter EXCEPT !.pc = "none"]
    /\ UNCHANGED <<unreadable, listing, documents, corpus, run, fix, hist, vision, now>>

NextAdapter ==
    \/ ProcessJson
    \/ ProcessCsv
    \/ ProcessFails

SpecAdapter == InitAdapter /\ [][NextAdapter]_vars

\* ------------------------------- the objects of the bucket by their names
\* a name is the sequence of its characters
MODALITIES ==
    [text |-> {<<".", "t", "x", "t">>, <<".", "l", "o", "g">>},
     markdown |-> {<<".", "m", "d">>, <<".", "m", "a", "r", "k", "d", "o", "w", "n">>},
     pdf |-> {<<".", "p", "d", "f">>},
     images |-> {<<".", "j", "p", "g">>, <<".", "j", "p", "e", "g">>, <<".", "p", "n", "g">>, <<".", "g", "i", "f">>, <<".", "b", "m", "p">>, <<".", "s", "v", "g">>, <<".", "w", "e", "b", "p">>},
     json |-> {<<".", "j", "s", "o", "n">>, <<".", "j", "s", "o", "n", "l">>},
     csv |-> {<<".", "c", "s", "v">>, <<".", "t", "s", "v">>},
     audio |-> {<<".", "m", "p", "3">>, <<".", "w", "a", "v">>, <<".", "m", "4", "a">>, <<".", "f", "l", "a", "c">>, <<".", "o", "g", "g">>, <<".", "a", "a", "c">>},
     video |-> {<<".", "m", "p", "4">>, <<".", "a", "v", "i">>, <<".", "m", "o", "v">>, <<".", "m", "k", "v">>, <<".", "w", "e", "b", "m">>, <<".", "f", "l", "v">>}]

Stems == {<<"a">>, <<"a", ".", "c", "s", "v">>}

NameEndings ==
    {<<".", "j", "s", "o", "n">>, <<".", "J", "S", "O", "N">>, <<".", "j", "s", "o", "n", "l">>,
     <<".", "c", "s", "v">>, <<".", "C", "s", "v">>, <<".", "t", "s", "v">>,
     <<".", "d", "a", "t">>, <<".", "j", "s", "o", "n", "?", "v", "=", "1">>,
     <<".", "c", "s", "v", "#", "t", "o", "p">>, <<".", "t", "x", "t">>,
     <<".", "T", "S", "V">>, <<>>}

\* the objects under multimodal-dataset/json/ and multimodal-dataset/csv/
Blobs ==
    {[prefix |-> p, name |-> stem \o ending] :
        p \in {"json", "csv"}, stem \in Stems, ending \in NameEndings}

\* str.endswith
EndsWith(name, extension) ==
    /\ Len(extension) <= Len(name)
    /\ SubSeq(name, Len(name) - Len(extension) + 1, Len(name)) = extension

\* list_files: the objects under the prefix whose name ends with the extension
list_files(blobs, prefix, extension) ==
    {blob \in blobs : blob.prefix = prefix /\ EndsWith(blob.name, extension)}

InitClassify ==
    /\ documents = EmptyTable
    /\ corpus = EmptyTable
    /\ run = [r \in Runs |-> IdleRun]
    /\ fix = IdleFix
    /\ hist = NoHist
    /\ vision = IdleVision
    /\ now = 1
    /\ adapter = NoCall
    /\ listing \in {[NoListing EXCEPT !.blob = blob] : blob \in Blobs}
    /\ unreadable = {}

\* json_files = list_files("json", ".json")
ListJson ==
    /\ listing.pc = "idle"
    /\ listing' = [listing EXCEPT !.pc = "json",
                      !.json_files = list_files({listing.blob}, "json", <<".", "j", "s", "o", "n">>)]
    /\ UNCHANGED <<unreadable, documents, corpus, run, fix, hist, vision, now, adapter>>

\* csv_files = list_files("csv", ".csv")
ListCsv ==
    /\ listing.pc = "json"
    /\ listing' = [listing EXCEPT !.pc = "csv",
                      !.csv_files = list_files({listing.blob}, "csv", <<".", "c", "s", "v">>)]
    /\ UNCHANGED <<unreadable, documents, corpus, run, fix, hist, vision, now, adapter>>

NextClassify ==
    \/ ListJson
    \/ ListCsv

SpecClassify == InitClassify /\ [][NextClassify]_vars

\* ------------------- complete_vision_analysis.py: the text of an image
\* a label is known by the category words its description holds in lower
\* case: "Dog", "Cat food", "Tree", "Sky", "Person"
LabelWords == {{"dog"}, {"cat", "food"}, {"tree"}, {}, {"person"}}

MaxLabels == 2

LabelLists == UNION {[1..n -> LabelWords] : n \in 0..MaxLabels}

\* the lengths of texts[0].description after replace and strip; no entry:
\* no text annotation
DetectedTexts == {<<>>, <<0>>, <<5>>, <<250>>}

\* what the four Vision calls answer for one image
VisionAnswers ==
    [labels : LabelLists, objects : {0, 1, 6}, texts : DetectedTexts, colors : {0, 1, 4}]

Line(section, items) == [section |-> section, items |-> items]

\* the if/elif chain over a label's lower-case description
CategoryOf(words) ==
    IF words \cap {"animal", "bird", "dog", "cat"} # {} THEN {"Animals"}
    ELSE IF words \cap {"person", "people", "face"} # {} THEN {"People"}
    ELSE IF words \cap {"food", "cuisine", "meal"} # {} THEN {"Food"}
    ELSE IF words \cap {"building", "architecture"} # {} THEN {"Architecture"}
    ELSE IF words \cap {"plant", "tree", "flower"} # {} THEN {"Nature"}
    ELSE {}

Categories(labels) == UNION {CategoryOf(labels[k]) : k \in DOMAIN Take(labels, 15)}

\* sorted(categories)
Sorted(categories) ==
    SelectSeq(<<"Animals", "Architecture", "Food", "Nature", "People">>,
              LAMBDA c : c \in categories)

LabelLines(labels) ==
    IF labels = <<>> THEN <<>>
    ELSE <<Line("Visual Content", Take(labels, 10)), Line("Top Labels", Take(labels, 5))>>

ObjectLines(objects) ==
    IF objects = 0 THEN <<>> ELSE <<Line("Detected Objects", Replicate("object", Min(objects, 5)))>>

DetectedTextLines_without_strip_test(texts) ==
    IF texts = <<>> THEN <<>>
    ELSE <<Line("Detected Text", Replicate("char", IF texts[1] > 200 THEN 203 ELSE texts[1]))>>

DetectedTextLines(texts) ==
    IF texts = <<>> \/ texts[1] = 0 THEN <<>>
    ELSE <<Line("Detected Text", Replicate("char", IF texts[1] > 200 THEN 203 ELSE texts[1]))>>

ColorLines(colors) ==
    IF colors = 0 THEN <<>> ELSE <<Line("Dominant Colors", Replicate("hex", Min(colors, 3)))>>

CategoryLines(labels) ==
    IF Categories(labels) = {} THEN <<>>
    ELSE <<Line("Categories", Sorted(Categories(labels)))>>

description_parts(image_uri, answer, time) ==
    <<Line("Image File", <<image_uri>>), Line("Location", <<image_uri>>)>>
       \o LabelLines(answer.labels) \o ObjectLines(answer.objects)
       \o DetectedTextLines(answer.texts) \o ColorLines(answer.colors)
       \o CategoryLines(answer.labels)
       \o <<Line("Analysis", <<"Complete Vision API content extraction">>),
            Line("Indexed", <<time>>)>>

InitDescribe ==
    /\ documents = EmptyTable
    /\ corpus = EmptyTable
    /\ run = [r \in Runs |-> IdleRun]
    /\ fix = IdleFix
    /\ hist = NoHist
    /\ vision = IdleVision
    /\ now \in Times
    /\ listing = NoListing
    /\ unreadable = {}
    /\ adapter \in {[NoCall EXCEPT !.pc = "call", !.kind = "image", !.data = a] :
                        a \in VisionAnswers}

\* analyze_and_update_image up to the join of description_parts
DescribeImage ==
    /\ adapter.pc = "call"
    /\ adapter.kind = "image"
    /\ \E image_uri \in ImageUris :
         adapter' = [adapter EXCEPT !.pc = "done",
                        !.content_parts = description_parts(image_uri, adapter.data, now)]
    /\ UNCHANGED <<unreadable, listing, documents, corpus, run, fix, hist, vision, now>>

\* a Vision call raised: False is returned, no text is made
DescribeFails ==
    /\ adapter.pc = "call"
    /\ adapter.kind = "image"
    /\ adapter' = [adapter EXCEPT !.pc = "none"]
    /\ UNCHANGED <<unreadable, listing, documents, corpus, run, fix, hist, vision, now>>

NextDescribe ==
    \/ DescribeImage
    \/ DescribeFails

SpecDescribe == InitDescribe /\ [][NextDescribe]_vars

\* ------------------------------------------------------ image records
\* the image rows of search_corpus before any analysis: one row per image,
\* with no text or with a placeholder text that lacks the marker
PlaceholderText(u) ==
    [isnull |-> FALSE, kind |-> "placeholder", file |-> u, body |-> 0, indexed |-> 0]

ImageRow(u, text) ==
    [uri |-> u, modality |-> "image", source |-> "NULL",
     text_content |-> text, embedding |-> NullEmbedding]

ImageRows(u) ==
    {<<ImageRow(u, NullText)>>, <<ImageRow(u, PlaceholderText(u))>>}

ImageTables ==
    {[u \in AllUris |-> IF u \in ImageUris THEN t[u] ELSE <<>>] :
        t \in {f \in [ImageUris -> UNION {ImageRows(u) : u \in ImageUris}] :
                  \A u \in ImageUris : f[u] \in ImageRows(u)}}

InitImage ==
    /\ documents = EmptyTable
    /\ corpus \in ImageTables
    /\ run = [r \in Runs |-> IdleRun]
    /\ fix = IdleFix
    /\ hist = NoHist
    /\ vision = IdleVision
    /\ now = 1
    /\ listing = NoListing
    /\ unreadable = {}
    /\ adapter = NoCall

\* time passes
Tick ==
    /\ now + 1 \in Times
    /\ now' = now + 1
    /\ UNCHANGED <<unreadable, listing, adapter, documents, corpus, run, fix, hist, vision>>

IsImage(row) == row.modality = "image"

\* text_content LIKE '%Vision API content extraction%'
HasMarker(text) == ~text.isnull /\ text.kind \in {"vision", "vision_all"}

\* the description analyze_image builds: file, location and content lines,
\* the analysis marker line and the "Indexed:" line with the current time
VisionText(kind, uri, time) ==
    [isnull |-> FALSE, kind |-> kind, file |-> uri, body |-> Blob(uri), indexed |-> time]

SetText_keeps_indexed(row, text) ==
    [row EXCEPT !.text_content = [text EXCEPT !.indexed = row.text_content.indexed]]

SetText(row, text) == [row EXCEPT !.text_content = text]

UpdateText_of_every_row(table, uri, text) ==
    UpdateWhere(table, LAMBDA row : TRUE, LAMBDA row : SetText(row, text))

\* UPDATE search_corpus SET text_content = @text_content WHERE uri = @uri
UpdateText(table, uri, text) ==
    UpdateWhere(table, LAMBDA row : row.uri = uri, LAMBDA row : SetText(row, text))

RECURSIVE Flatten(_)
Flatten(ss) == IF ss = <<>> THEN <<>> ELSE Head(ss) \o Flatten(Tail(ss))

\* --------------------------------- complete_vision_analysis.py: main
NeedsAnalysis_every_image(row) == IsImage(row)

NeedsAnalysis(row) ==
    IsImage(row) /\ (row.text_content.isnull \/ ~HasMarker(row.text_content))

\* SELECT uri ... ORDER BY uri: one entry per selected row
remaining_uris(table) ==
    LET ord == OrderByUri(DOMAIN table)
    IN Flatten([k \in DOMAIN ord |->
                  Replicate(ord[k], Len(SelectSeq(table[ord[k]], NeedsAnalysis)))])

CompleteStart ==
    /\ vision.pc = "idle"
    /\ vision' = IF remaining_uris(corpus) = <<>> THEN IdleVision
                 ELSE [IdleVision EXCEPT !.pc = "complete",
                                         !.remaining_uris = remaining_uris(corpus),
                                         !.before = corpus, !.again = vision.failed]
    /\ UNCHANGED <<unreadable, listing, adapter, documents, corpus, run, fix, hist, now>>

WriteAnalysis_also_on_failure(table, uri, time, ok) ==
    UpdateText(table, uri, VisionText("vision", uri, time))

\* the UPDATE is the last call of the try block: a failure writes nothing
WriteAnalysis(table, uri, time, ok) ==
    IF ok THEN UpdateText(table, uri, VisionText("vision", uri, time)) ELSE table

\* one turn of the loop; after the last uri main reports and returns
analyze_and_update_image ==
    /\ vision.pc = "complete"
    /\ \E ok \in BOOLEAN :
         LET uri == Head(vision.remaining_uris)
             v == [vision EXCEPT !.remaining_uris = Tail(@),
                                 !.success_count = IF ok THEN @ + 1 ELSE @,
                                 !.failed = IF ok THEN @ ELSE @ \cup {uri}]
         IN /\ corpus' = WriteAnalysis(corpus, uri, now, ok)
            /\ vision' = IF v.remaining_uris = <<>>
                         THEN [IdleVision EXCEPT !.failed = v.failed]
                         ELSE v
    /\ UNCHANGED <<unreadable, listing, adapter, documents, run, fix, hist, now>>

\* --------------------------------- update_all_images_vision.py: main
\* SELECT DISTINCT uri ... WHERE modality = 'image' ORDER BY uri
get_image_uris(table) == OrderByUri(UrisWhere(table, IsImage))

Batches_from_last_of_previous(image_uris) ==
    [k \in 1..((Len(image_uris) + batch_size - 1) \div batch_size) |->
        SubSeq(image_uris, IF k = 1 THEN 1 ELSE (k - 1) * batch_size,
               Min(k * batch_size, Len(image_uris)))]

\* [image_uris[i:i + batch_size] for i in range(0, len(image_uris), batch_size)]
Batches(image_uris) ==
    [k \in 1..((Len(image_uris) + batch_size - 1) \div batch_size) |->
        SubSeq(image_uris, (k - 1) * batch_size + 1, Min(k * batch_size, Len(image_uris)))]

analyze_image(uri, time, ok) ==
    [uri |-> uri, success |-> ok,
     text_content |-> IF ok THEN VisionText("vision_all", uri, time) ELSE NullText]

IsSuccessful(r) == r.success /\ ~r.text_content.isnull

UpdateAllStart ==
    /\ vision.pc = "idle"
    /\ LET batches == Batches(get_image_uris(corpus))
       IN vision' = IF batches = <<>> THEN IdleVision
                    ELSE [IdleVision EXCEPT !.pc = "batch", !.batches = batches, !.i = 1,
                                            !.todo = DOMAIN batches[1], !.before = corpus]
    /\ UNCHANGED <<unreadable, listing, adapter, documents, corpus, run, fix, hist, now>>

\* process_batch: one future of the pool completes
AnalyzeImage ==
    /\ vision.pc = "batch"
    /\ \E k \in vision.todo, ok \in BOOLEAN :
         LET uri == vision.batches[vision.i][k]
         IN vision' = [vision EXCEPT !.todo = @ \ {k},
                          !.batch_results = Append(@, analyze_image(uri, now, ok)),
                          !.failed = IF ok THEN @ ELSE @ \cup {uri}]
    /\ UNCHANGED <<unreadable, listing, adapter, documents, corpus, run, fix, hist, now>>

\* main after the update of batch i: statistics, then the next batch or the end
Advance(v) ==
    LET n == Len(SelectSeq(v.batch_results, LAMBDA r : r.success))
        counted == [v EXCEPT !.all_results = @ + Len(v.batch_results),
                             !.successful_count = @ + n,
                             !.failed_count = @ + (Len(v.batch_results) - n)]
    IN IF v.i < Len(v.batches)
       THEN [counted EXCEPT !.pc = "batch", !.i = @ + 1, !.todo = DOMAIN v.batches[v.i + 1],
                            !.batch_results = <<>>, !.pending = <<>>]
       ELSE [IdleVision EXCEPT !.failed = v.failed]

\* WHERE sc.uri = updates.uri
Matches(row, results) == \E n \in DOMAIN results : results[n].uri = row.uri

\* UPDATE search_corpus sc SET sc.text_content = updates.text_content FROM updates
BatchUpdate(table, results) ==
    UpdateWhere(table, LAMBDA row : Matches(row, results),
                LAMBDA row : SetText(row, (CHOOSE r \in SeqRange(results) :
                                              r.uri = row.uri \/ ~Matches(row, results)).text_content))

update_batch_in_bigquery ==
    /\ vision.pc = "batch"
    /\ vision.todo = {}
    /\ LET successful_results == SelectSeq(vision.batch_results, IsSuccessful)
       IN IF successful_results = <<>>
          THEN corpus' = corpus /\ vision' = Advance(vision)
          ELSE \E ok \in BOOLEAN :
                  IF ok
                  THEN /\ corpus' = BatchUpdate(corpus, successful_results)
                       /\ vision' = Advance(vision)
                  ELSE /\ corpus' = corpus
                       /\ vision' = [vision EXCEPT !.pc = "fallback",
                                                   !.pending = successful_results]
    /\ UNCHANGED <<unreadable, listing, adapter, documents, run, fix, hist, now>>

\* the fallback loop: one update, its failure is logged and passed over
update_individual ==
    /\ vision.pc = "fallback"
    /\ \E ok \in BOOLEAN :
         LET result == Head(vision.pending)
             v == [vision EXCEPT !.pending = Tail(@)]
         IN /\ corpus' = IF ok THEN UpdateText(corpus, result.uri, result.text_content)
                         ELSE corpus
            /\ vision' = IF v.pending = <<>> THEN Advance(v) ELSE v
    /\ UNCHANGED <<unreadable, listing, adapter, documents, run, fix, hist, now>>

\* the script is stopped; what the interrupted run had reached is kept on record
Stop ==
    /\ vision.pc # "idle"
    /\ vision' = [IdleVision EXCEPT !.failed = vision.failed, !.before = vision.before,
                                    !.batches = vision.batches, !.i = vision.i,
                                    !.pending = vision.pending]
    /\ UNCHANGED <<unreadable, listing, adapter, documents, corpus, run, fix, hist, now>>

\* runs of complete_vision_analysis.py
NextVision ==
    \/ Tick
    \/ CompleteStart
    \/ analyze_and_update_image
    \/ Stop

SpecVision == InitImage /\ [][NextVision]_vars

\* runs of update_all_images_vision.py
NextImage ==
    \/ Tick
    \/ UpdateAllStart
    \/ AnalyzeImage
    \/ update_batch_in_bigquery
    \/ update_individual
    \/ Stop

SpecImage == InitImage /\ [][NextImage]_vars

\* runs of either script, one after another
NextWrites ==
    \/ NextVision
    \/ NextImage

SpecWrites == InitImage /\ [][NextWrites]_vars

\* index update between runs of the scripts: a record with a text and no
\* embedding is embedded
IndexUpdate ==
    /\ vision.pc = "idle"
    /\ \E id \in RowIds(corpus) :
         /\ IsNullAnomaly(RowAt(corpus, id))
         /\ corpus' = [corpus EXCEPT ![id[1]][id[2]].embedding =
                          Embed(RowAt(corpus, id).text_content)]
    /\ UNCHANGED <<unreadable, listing, adapter, documents, run, fix, hist, vision, now>>

NextIndexed ==
    \/ NextWrites
    \/ IndexUpdate

SpecIndexed == InitImage /\ [][NextIndexed]_vars

Next ==
    \/ \E r \in Runs : IngestStart(r)
    \/ \E r \in Runs : ExtractJson(r)
    \/ \E r \in Runs : JsonPoolDone(r)
    \/ \E r \in Runs : ExtractCsv(r)
    \/ \E r \in Runs : InsertAll(r)
    \/ ingest_simple_data
    \/ create_search_corpus
    \/ Regress
    \/ fix_stuck
    \/ fix_embeddings
    \/ ScriptMissing
    \/ ScriptScan
    \/ ScriptEmbed
    \/ ScriptFinish
    \/ FixReturn

Spec == Init /\ [][Next]_vars

\* corpus building, embedding and search
NextSearch ==
    \/ \E r \in Runs : IngestStart(r)
    \/ \E r \in Runs : ExtractJson(r)
    \/ \E r \in Runs : JsonPoolDone(r)
    \/ \E r \in Runs : ExtractCsv(r)
    \/ \E r \in Runs : InsertAll(r)
    \/ ingest_simple_data
    \/ create_search_corpus
    \/ Regress
    \/ fix_embeddings
    \/ ScriptScan
    \/ ScriptEmbed
    \/ ScriptFinish
    \/ FixReturn
    \/ search

SpecSearch == Init /\ [][NextSearch]_vars

\* ======================================================== properties
CorpusRows == RowIds(corpus)

Row(id) == RowAt(corpus, id)

HasVector(row) == ArrayLengthIs(row.embedding, D)

HasEmbedding(row) == ~row.embedding.isnull

\* C1: after any sequence of ingestion runs, run one after another, the
\* corpus holds at most one record per uri: no two rows share a uri.
C1_Uniqueness ==
    \A i, j \in CorpusRows : Row(i).uri = Row(j).uri => i = j

\* a re-ingestion run that found ingested uris is about to insert new ones
C1_Witness ==
    \E r \in Runs :
       /\ run[r].pc = "csv" /\ run[r].todo = {}
       /\ run[r].existing # {}
       /\ run[r].json_documents \o run[r].csv_documents # <<>>
       /\ Cardinality(CorpusRows) >= 2

CreatedOk(row) == ~row.text_content.isnull /\ row.embedding.isnull

\* C2: no record has an embedding present while its canonical_text is
\* absent, and every record is created with its text set and its
\* embedding absent (inserted rows, and all rows of a rebuilt table).
C2_NoPrematureEmbedding ==
    /\ [](\A i \in CorpusRows : Row(i).text_content.isnull => Row(i).embedding.isnull)
    /\ [][/\ \A i \in RowIds(corpus') \ CorpusRows : CreatedOk(RowAt(corpus', i))
          /\ create_search_corpus =>
                \A i \in RowIds(corpus') : CreatedOk(RowAt(corpus', i))]_vars

\* a record is embedded while a text-less document was kept out of the corpus
C2_Witness ==
    /\ \E i \in CorpusRows : HasEmbedding(Row(i)) /\ Row(i).source = "NULL"
    /\ \E i \in CorpusRows : Row(i).source = "file"
    /\ \E i \in RowIds(documents) :
          RowAt(documents, i).text_content.isnull /\ corpus[i[1]] = <<>>

\* C3: a repair pass that ran to completion with every embedding call
\* succeeding leaves no null-with-text, empty or wrong-dimension embedding,
\* and a pass run immediately after such a pass resets and repairs nothing.
C3_RepairFixedPoint ==
    /\ (fix.pc = "done" /\ fix.ran /\ fix.failed = 0) => Count(corpus, IsAnomaly) = 0
    /\ (fix.pc = "done" /\ fix.follows) => (fix.reset = 0 /\ fix.repaired = 0)

\* the second of two passes has finished, on a corpus with vectors
C3_Witness ==
    /\ fix.pc = "done" /\ fix.follows /\ fix.ran
    /\ \E i \in CorpusRows : HasVector(Row(i))

\* C4: a repair run on a corpus without anomalies changes no record and
\* reports zero records reset and zero repaired.
C4_RepairNoOp ==
    /\ [](fix.clean => (fix.reset = 0 /\ fix.repaired = 0))
    /\ [][(fix.clean \/ fix'.clean) => (corpus' = corpus /\ documents' = documents)]_vars

\* a repair finished on an anomaly-free corpus that holds vectors
C4_Witness ==
    /\ fix.pc = "done" /\ fix.clean /\ fix.ran
    /\ \E i \in CorpusRows : HasVector(Row(i))

NoDirectOverwrite(T(_)) ==
    \A i \in CorpusRows \cap RowIds(corpus') :
       T(Row(i)) => RowAt(corpus', i).embedding \in {Row(i).embedding, NullEmbedding}

\* C5: a zero-length embedding is repaired in two phases: fix_stuck has
\* set it to null before the re-embedding script starts, no re-embedding
\* happens while an empty array is left, and no step writes a vector
\* directly over an empty array.
C5_EmptyTwoPhase ==
    /\ [](fix.pc = "embed" => Count(corpus, IsEmptyAnomaly) = 0)
    /\ [][fix_stuck =>
            \A i \in RowIds(corpus') :
               InScope(RowAt(corpus', i), fix'.modality) => ~IsEmptyAnomaly(RowAt(corpus', i))]_vars
    /\ [][NoDirectOverwrite(IsEmptyAnomaly)]_vars

\* a record that fix_stuck reset from the empty array has been re-embedded
C5_Witness ==
    /\ fix.pc = "done" /\ fix.reset > 0 /\ fix.wasEmpty # {}
    /\ \A i \in fix.wasEmpty : HasVector(Row(i))

\* C6: an embedding whose length is neither 0 nor D is repaired in two
\* phases: it is null before the re-embedding starts and no step writes a
\* vector directly over it.
C6_WrongDimTwoPhase ==
    /\ [](fix.pc = "embed" => Count(corpus, IsWrongDim) = 0)
    /\ [][NoDirectOverwrite(IsWrongDim)]_vars

\* a repair that found a wrong-dimension vector finished with all rows valid
C6_Witness ==
    /\ fix.pc = "done" /\ fix.found[3] > 0 /\ fix.failed = 0
    /\ \A i \in CorpusRows : HasVector(Row(i))

VerifyRow(row) == index_verify(InsertRows(EmptyTable, <<row>>))[row.modality]

\* C7: verify counts a record with an empty-array embedding under empty
\* and not under valid or null; after a repair whose embedding calls
\* succeed it counts that record under valid and no longer under empty.
C7_VerifyEmptyThenValid ==
    /\ \A i \in CorpusRows :
          Row(i).embedding = EmptyEmbedding =>
             VerifyRow(Row(i)) = [total_docs |-> 1, valid_embeddings |-> 0,
                                  null_embeddings |-> 0, empty_embeddings |-> 1]
    /\ (fix.pc = "done" /\ fix.ran /\ fix.failed = 0) =>
          \A i \in fix.wasEmpty :
             VerifyRow(Row(i)) = [total_docs |-> 1, valid_embeddings |-> 1,
                                  null_embeddings |-> 0, empty_embeddings |-> 0]

\* a record that was empty when the repair started is valid at its end
C7_Witness ==
    /\ fix.pc = "done" /\ fix.ran /\ fix.failed = 0 /\ fix.wasEmpty # {}
    /\ \E m \in DOMAIN index_verify(corpus) : index_verify(corpus)[m].valid_embeddings > 0

Answered == hist.last.valid /\ hist.last.ok

\* C8: search returns at most top_k results, ordered by descending score
\* with equal scores by uri ascending, and returns exactly
\* min(top_k, number of candidates) of the candidates: no padding.
C8_SearchTopK ==
    Answered =>
       LET res == hist.last.results
           cand == Candidates(corpus, hist.last.filter)
       IN /\ Len(res) <= hist.last.top_k
          /\ Len(res) = Min(hist.last.top_k, Cardinality(cand))
          /\ \A n \in DOMAIN res : \E i \in cand : res[n].uri = Row(i).uri
          /\ \A n, k \in DOMAIN res : n < k =>
                /\ ~ScoreLess(res[n].score, res[k].score)
                /\ ScoreEq(res[n].score, res[k].score) => res[n].uri < res[k].uri

\* both a tie broken by uri and a cut at top_k have happened
C8_Witness ==
    /\ Answered
    /\ Len(hist.last.results) = 2
    /\ ScoreEq(hist.last.results[1].score, hist.last.results[2].score)
    /\ Cardinality(Candidates(corpus, hist.last.filter)) > hist.last.top_k

\* C9: every record search returns has an embedding, so there are never
\* more results than records with an embedding.
C9_OnlyEmbedded ==
    Answered =>
       /\ \A n \in DOMAIN hist.last.results :
             \A i \in CorpusRows :
                Row(i).uri = hist.last.results[n].uri => HasEmbedding(Row(i))
       /\ Len(hist.last.results) <= Count(corpus, HasEmbedding)

\* fewer results than top_k because a record without embedding is left out
C9_Witness ==
    /\ Answered
    /\ hist.last.filter = {}
    /\ Len(hist.last.results) = 1 /\ hist.last.top_k = 2
    /\ \E i \in CorpusRows : ~HasEmbedding(Row(i))

\* C10: a search leaves both tables as they were, and a search repeated
\* with the same arguments on the unchanged corpus returns the same list.
C10_SearchDeterministic ==
    [][hist'.last.valid =>
         /\ corpus' = corpus /\ documents' = documents
         /\ hist'.last.repeat => hist'.last.results = hist.last.results]_vars

\* a repeated search over tied candidates
C10_Witness ==
    /\ Answered /\ hist.last.repeat
    /\ Len(hist.last.results) = 2
    /\ ScoreEq(hist.last.results[1].score, hist.last.results[2].score)

\* C11: a search whose query could not be embedded fails outright: the
\* caller gets the failure and no result list, neither a partial ranking
\* nor a list built from the texts alone.
C11_SearchFailsOutright ==
    (hist.last.valid /\ ~hist.last.ok) => hist.last.results = <<>>

\* a search failed on a corpus that holds rows it could have ranked
C11_Witness ==
    /\ hist.last.valid /\ ~hist.last.ok
    /\ \E i \in CorpusRows : HasVector(Row(i))
    /\ \E i \in CorpusRows : ~HasVector(Row(i))
RunEnds(r) == run[r].pc = "csv" /\ run[r].todo = {} /\ run'[r].pc = "idle"

Processed(r) == run[r].json_documents \o run[r].csv_documents

ProcessedUris(r) == {Processed(r)[i].uri : i \in DOMAIN Processed(r)}

\* C12: at the end of an ingestion run every submitted uri is counted once,
\* attempted = succeeded + failed; a submitted uri with an unlisted
\* extension is counted as failed and has no record; a submitted uri with
\* a listed extension whose extraction succeeded is counted as succeeded
\* and is stored.
C12_RunStats ==
    [][\A r \in Runs : RunEnds(r) =>
          /\ Cardinality(run[r].submitted) = Len(Processed(r)) + Cardinality(run[r].failed)
          /\ ProcessedUris(r) \cap run[r].failed = {}
          /\ \A u \in run[r].submitted :
                /\ ~HasListedExtension(u) => (u \in run[r].failed /\ corpus'[u] = <<>>)
                /\ (HasListedExtension(u) /\ u \in ProcessedUris(r)) => corpus'[u] # <<>>]_vars
\* C13: a failing document never takes the rest of its batch with it: at
\* the end of a run every submitted uri has been attempted, and whichever
\* documents failed in extraction or were rejected by the store, every
\* other document whose extraction succeeded is stored.
C13_FailureIsolated ==
    [][\A r \in Runs : RunEnds(r) =>
          /\ run[r].submitted = ProcessedUris(r) \cup run[r].failed
          /\ \A errors \in SUBSET ProcessedUris(r) :
                corpus' = insert_to_bigquery(corpus, Processed(r), errors) =>
                   \A u \in ProcessedUris(r) \ errors : corpus'[u] # <<>>]_vars
SourceModality(u) == IF u \in JsonUris THEN "json" ELSE "csv"

\* the corpus holds a record of u with a text, of the modality u is ingested as
PresentWithText(u) ==
    \E k \in DOMAIN corpus[u] :
       ~corpus[u][k].text_content.isnull /\ corpus[u][k].modality = SourceModality(u)

RunActive(r) == run[r].pc # "idle" \/ run'[r].pc # "idle"

\* C14: an ingestion run never submits for extraction a uri that the
\* corpus already holds with a text for the same modality, and no step of
\* the run changes or removes a record that was there.
C14_SkipPresent ==
    /\ [](\A r \in Runs : \A u \in run[r].submitted \cup run[r].todo : ~PresentWithText(u))
    /\ [][\A r \in Runs : RunActive(r) =>
             /\ \A u \in (JsonUris \cup CsvUris) \ run'[r].existing :
                   run[r].pc = "idle" => ~PresentWithText(u)
             /\ \A id \in CorpusRows :
                   id \in RowIds(corpus') /\ RowAt(corpus', id) = Row(id)]_vars

\* a run that skipped a present uri has extracted another one
C14_Witness ==
    \E r \in Runs :
       /\ run[r].pc = "csv"
       /\ \E u \in run[r].existing \ run[r].submitted : PresentWithText(u)
       /\ DocUris(Processed(r)) # {}
TextOf(table, u) == {table[u][k].text_content : k \in DOMAIN table[u]}

PayloadAt(parts) == CHOOSE i \in DOMAIN parts : parts[i].name = "payload"

\* C16: in the text of an adapter the truncated suffix stands right after
\* the raw payload exactly when the payload was cut to its budget, and
\* nowhere else.
C16_TruncationMarked ==
    adapter.pc = "done" =>
       LET parts == adapter.content_parts
           i == PayloadAt(parts)
       IN /\ parts[i].len < parts[i].of <=> parts[i + 1].name = "truncated"
          /\ \A j \in DOMAIN parts : parts[j].name = "truncated" => j = i + 1

\* the document whose every size is the largest slice the adapters take
FullDocument(kind) ==
    IF kind = "json"
    THEN JsonContentParts([shape |-> "dict", n |-> SliceMax, kl |-> SliceMax, w |-> SliceMax])
    ELSE CsvContentParts([c |-> SliceMax, hl |-> SliceMax, r |-> SliceMax, w |-> SliceMax])

\* the length of a text all of whose parts are as long as the slices let
\* them be, without the truncation marker
FixedMaximum(kind) == TextLength(FullDocument(kind)) - MarkerLen

\* C17: whatever the sizes of the document, the text of an adapter is no
\* longer than a fixed maximum plus the truncation marker.
C17_TextBounded ==
    adapter.pc = "done" =>
       TextLength(adapter.content_parts) <= FixedMaximum(adapter.kind) + MarkerLen
\* the text the record had when the run in progress started
TextBefore(id) == RowAt(vision.before, id).text_content

\* C18: a run over an image whose record already holds the text of an
\* earlier run, the image being unchanged, leaves that text as it was,
\* character for character: the text does not depend on the time of the run.
C18_SameTextOnRerun ==
    vision.pc # "idle" =>
       \A id \in CorpusRows : HasMarker(TextBefore(id)) => Row(id).text_content = TextBefore(id)

Occurrences(seq, u) == Cardinality({k \in DOMAIN seq : seq[k] = u})

ResultUris(results) == [k \in DOMAIN results |-> results[k].uri]

\* C19: in a run of the image pipeline the work list holds every image uri
\* of the corpus once, the batches partition it, the batch in progress is
\* the only one with work outstanding and all earlier batches are
\* complete, and every uri of the batch is given to the pool once: no uri
\* is analysed twice in a run.
C19_OneWorkerPerUri ==
    vision.pc \in {"batch", "fallback"} =>
       LET batch == vision.batches[vision.i]
           earlier == Flatten(SubSeq(vision.batches, 1, vision.i - 1))
       IN /\ \A u \in AllUris :
                Occurrences(Flatten(vision.batches), u)
                   = IF \E k \in DOMAIN vision.before[u] : IsImage(vision.before[u][k])
                     THEN 1 ELSE 0
          /\ vision.todo \subseteq DOMAIN batch
          /\ \A u \in AllUris :
                Occurrences(ResultUris(vision.batch_results), u)
                   + Cardinality({k \in vision.todo : batch[k] = u}) = Occurrences(batch, u)
          /\ vision.all_results = Len(earlier)
          /\ \A u \in AllUris :
                Occurrences(earlier, u) + Occurrences(ResultUris(vision.batch_results), u) <= 1

\* the second batch is in progress after a first batch of several images
C19_Witness ==
    /\ vision.pc = "batch" /\ vision.i > 1
    /\ Len(vision.batches[1]) > 1
    /\ vision.batch_results # <<>>
LaterBatches == Flatten(SubSeq(vision.batches, vision.i + 1, Len(vision.batches)))

Rewritten == {id \in CorpusRows : Row(id).text_content # TextBefore(id)}

\* C20: while a run of the image pipeline is at work, and after it was
\* stopped between batches or inside the per-record fallback, every record
\* holds either the whole text it had when the run began or the whole text
\* this run made for its own uri, and the records of batches not yet
\* started hold the text they had.
C20_WholeTextOrNone ==
    vision.batches # <<>> =>
       \A id \in CorpusRows :
          /\ \/ Row(id).text_content = TextBefore(id)
             \/ \E time \in Times :
                   Row(id).text_content = VisionText("vision_all", Row(id).uri, time)
          /\ Row(id).uri \in SeqRange(LaterBatches) => Row(id).text_content = TextBefore(id)

\* a run stopped inside the fallback of a batch, one record rewritten, with
\* a batch still to come
C20_Witness ==
    /\ vision.pc = "idle" /\ vision.pending # <<>>
    /\ LaterBatches # <<>>
    /\ Rewritten # {}
\* the part of a name before its query or fragment
WithoutQuery(name) ==
    LET stops == {i \in DOMAIN name : name[i] \in {"?", "#"}}
    IN IF stops = {} THEN name
       ELSE SubSeq(name, 1, (CHOOSE i \in stops : \A j \in stops : i <= j) - 1)

Lower(c) ==
    CASE c = "J" -> "j" [] c = "S" -> "s" [] c = "O" -> "o" [] c = "N" -> "n"
      [] c = "C" -> "c" [] c = "T" -> "t" [] c = "V" -> "v" [] OTHER -> c

\* the extension of a name, in lower case: from its last dot on
ExtensionOf(name) ==
    LET path == WithoutQuery(name)
        dots == {i \in DOMAIN path : path[i] = "."}
    IN IF dots = {} THEN <<>>
       ELSE LET last == CHOOSE i \in dots : \A j \in dots : j <= i
            IN [k \in 1..(Len(path) - last + 1) |-> Lower(path[last + k - 1])]

ModalitiesOf(name) == {m \in DOMAIN MODALITIES : ExtensionOf(name) \in MODALITIES[m]}

\* C21: every name has at most one modality in the extension table, found
\* from its extension without regard to case and without its query or
\* fragment; an object is taken up as JSON exactly if that modality is
\* json, as CSV exactly if it is csv, and an object whose extension the
\* table lacks is taken up as neither.
C21_ClassifyByExtension ==
    listing.pc = "csv" =>
       /\ Cardinality(ModalitiesOf(listing.blob.name)) <= 1
       /\ listing.blob \in listing.json_files <=> ModalitiesOf(listing.blob.name) = {"json"}
       /\ listing.blob \in listing.csv_files <=> ModalitiesOf(listing.blob.name) = {"csv"}
SectionsOf(parts) == [k \in DOMAIN parts |-> parts[k].section]

\* the signal a content section is made from is not empty
HasSignal(answer, section) ==
    CASE section \in {"Visual Content", "Top Labels"} -> answer.labels # <<>>
      [] section = "Detected Objects" -> answer.objects > 0
      [] section = "Detected Text" -> answer.texts # <<>> /\ answer.texts[1] > 0
      [] section = "Dominant Colors" -> answer.colors > 0
      [] section = "Categories" ->
            \E k \in DOMAIN answer.labels :
               answer.labels[k] \cap {"animal", "bird", "dog", "cat", "person", "people", "face",
                                      "food", "cuisine", "meal", "building", "architecture",
                                      "plant", "tree", "flower"} # {}

\* C22: the text of an image is the file line, the location line, then of
\* visual content, top labels, detected objects, detected text, dominant
\* colors and categories, in this order, exactly the sections whose signal
\* is not empty, then the analysis line and the indexed line; no line of a
\* section is empty.
C22_ImageTextSections ==
    (adapter.kind = "image" /\ adapter.pc = "done") =>
       /\ SectionsOf(adapter.content_parts)
             = <<"Image File", "Location">>
                  \o SelectSeq(<<"Visual Content", "Top Labels", "Detected Objects",
                                 "Detected Text", "Dominant Colors", "Categories">>,
                               LAMBDA section : HasSignal(adapter.data, section))
                  \o <<"Analysis", "Indexed">>
       /\ \A k \in DOMAIN adapter.content_parts : adapter.content_parts[k].items # <<>>

\* a text made for an image with labels of no category, a blank detected
\* text and no colors
C22_Witness ==
    /\ adapter.kind = "image" /\ adapter.pc = "done"
    /\ adapter.data.labels # <<>> /\ ~HasSignal(adapter.data, "Categories")
    /\ adapter.data.texts = <<0>>
    /\ adapter.data.colors = 0 /\ adapter.data.objects > 0
Extracting(r) == {run[r].workers[w] : w \in BusyWorkers(r)}

\* C23: during an extraction pass at most 5 uris are being extracted at any
\* moment, no uri is with two workers (a worker holds one uri), and the
\* corpus is written only when every submitted extraction has completed:
\* nothing waits, no worker is busy.
C23_BoundedPool ==
    /\ [](\A r \in Runs :
            /\ Cardinality(BusyWorkers(r)) <= 5
            /\ Cardinality(Extracting(r)) = Cardinality(BusyWorkers(r))
            /\ Extracting(r) \cap SeqRange(run[r].queue) = {}
            /\ (run[r].todo # {}) => \A u \in run[r].submitted : corpus[u] = <<>>)
    /\ [][corpus' # corpus =>
            \E r \in Runs :
               /\ run[r].todo = {} /\ run[r].queue = <<>> /\ BusyWorkers(r) = {}
               /\ run[r].submitted # {}]_vars

\* five uris are being extracted while a sixth waits for a free worker
C23_Witness ==
    \E r \in Runs :
       /\ Cardinality(BusyWorkers(r)) = 5
       /\ run[r].queue # <<>>
\* C24: a step of either image script neither creates nor deletes a
\* record; a record it changes keeps its uri, modality, source and
\* embedding and receives a text made for its own uri, and a step that
\* writes for one uri (analyze_and_update_image, update_individual) leaves
\* the records of every other uri as they were.
C24_WritesOnlyMatchingText ==
    [][/\ \A u \in DOMAIN corpus : DOMAIN corpus'[u] = DOMAIN corpus[u]
       /\ \A id \in CorpusRows :
             LET old == Row(id)
                 new == RowAt(corpus', id)
             IN new # old =>
                  /\ new = [old EXCEPT !.text_content = new.text_content]
                  /\ \E kind \in {"vision", "vision_all"}, time \in Times :
                        new.text_content = VisionText(kind, old.uri, time)
                  /\ vision.pc = "complete" => old.uri = Head(vision.remaining_uris)
                  /\ vision.pc = "fallback" => old.uri = Head(vision.pending).uri
                  /\ vision.pc = "batch" =>
                        \E k \in DOMAIN vision.batch_results :
                           vision.batch_results[k].uri = old.uri]_vars

\* a script has rewritten the text of some records and not of others
C24_Witness ==
    /\ vision.pc \in {"complete", "batch", "fallback"}
    /\ Rewritten # {}
    /\ \E id \in CorpusRows \ Rewritten : Row(id).text_content.isnull
\* the image records whose text is null or lacks the marker line
Unanalysed(table) ==
    {id \in RowIds(table) :
        /\ RowAt(table, id).modality = "image"
        /\ \/ RowAt(table, id).text_content.isnull
           \/ RowAt(table, id).text_content.kind \notin {"vision", "vision_all"}}

\* C25: a pass of complete_vision_analysis.py selects exactly the uris of
\* the image records whose text is null or lacks the marker; a text it
\* writes has the marker; so when a pass ends in which nothing failed no
\* image record is left to select, and a pass started then analyses no
\* image and changes no record.
C25_PassFixpoint ==
    [][/\ CompleteStart =>
            /\ SeqRange(remaining_uris(corpus)) = {id[1] : id \in Unanalysed(corpus)}
            /\ vision'.pc = "complete" => vision'.remaining_uris = remaining_uris(corpus)
            /\ Unanalysed(corpus) = {} => (vision'.pc = "idle" /\ corpus' = corpus)
       /\ \A id \in CorpusRows :
             RowAt(corpus', id) # Row(id) => id \notin Unanalysed(corpus')
       /\ (vision.pc = "complete" /\ vision'.pc = "idle"
              /\ vision'.before = <<>> /\ vision'.failed = {}) => Unanalysed(corpus') = {}]_vars

\* every image has been analysed by passes of the script and none is left
C25_Witness ==
    /\ vision.pc = "idle" /\ vision.before = <<>>
    /\ Unanalysed(corpus) = {}
    /\ \E id \in CorpusRows : Row(id).text_content.kind = "vision" /\ Row(id).text_content.indexed = 2
\* C26: a record that has an embedding has the embedding of the text it
\* holds now.
C26_EmbeddingOfCurrentText ==
    \A id \in CorpusRows :
       HasEmbedding(Row(id)) => Row(id).embedding = Embed(Row(id).text_content)
\* C27: with two ingestion runs interleaved in any way, no uri has two
\* records in the corpus.
C27_UniquenessOverlapping ==
    \A u \in DOMAIN corpus : Len(corpus[u]) <= 1
ReadableStored ==
    \A u \in (ManyJsonUris \cup ManyCsvUris) \ unreadable : corpus[u] # <<>>

\* C28: under repeated runs every source uri whose extraction succeeds is
\* stored in the end, however many other uris fail on every run.
C28_EventuallyStored == <>ReadableStored
RowCount(table) == Cardinality(RowIds(table))

\* C29: the number of documents an ingestion run reports as processed is
\* the number of records the run wrote to the corpus.
C29_ReportedCountIsWritten ==
    [][\A r \in Runs :
          RunEnds(r) => Len(Processed(r)) = RowCount(corpus') - RowCount(corpus)]_vars
Counted(report) == report.valid_embeddings + report.null_embeddings + report.empty_embeddings

\* the records of a modality with an embedding of a length other than 0 and 768
OtherLength(table, m) ==
    {id \in Group(table, m) :
        /\ ~RowAt(table, id).embedding.isnull
        /\ RowAt(table, id).embedding.len \notin {0, 768}}

\* C30: in the verify report of any corpus, for every modality no record is
\* counted under two of valid, null and empty, so the three counts add up
\* to at most the total, and what is missing to the total is the number of
\* records with an embedding of a length other than 0 and 768.
C30_VerifyPartition ==
    \A m \in DOMAIN index_verify(corpus) :
       LET report == index_verify(corpus)[m]
       IN /\ \A id \in Group(corpus, m) :
                ValidCase(Row(id)) + NullCase(Row(id)) + EmptyCase(Row(id)) <= 1
          /\ Counted(report) <= report.total_docs
          /\ report.total_docs - Counted(report) = Cardinality(OtherLength(corpus, m))

\* a modality with a record of another length next to counted records
C30_Witness ==
    \E m \in DOMAIN index_verify(corpus) :
       /\ OtherLength(corpus, m) # {}
       /\ index_verify(corpus)[m].null_embeddings > 0
====
